---- MODULE Spec2Model ----
(***************************************************************************)
(* Model of the hostport crate: the host validator (src/src/validate.rs)   *)
(* and the HostPort value type with its construction, parsing, rendering   *)
(* and comparison paths (src/src/lib.rs).                                  *)
(*                                                                         *)
(* A Rust &str is modelled as a sequence of characters, each character a   *)
(* one-character TLA+ string.  <<"a", ".", "b">> is the text "a.b".        *)
(***************************************************************************)
EXTENDS Integers, Sequences, FiniteSets

(***************************************************************************)
(* Bounds of the exploration.                                              *)
(***************************************************************************)
\* longest host candidate enumerated exhaustively over HostChars
MaxHostLen == 4
\* longest raw text enumerated exhaustively over TextChars
MaxTextLen == 3

(***************************************************************************)
(* Program constants.                                                      *)
(***************************************************************************)
MaxHostBytes == 255
MaxLabelBytes == 63
U16Max == 65535
U8Max == 255
Ipv4MaxBytes == 15
Ipv4MaxDigits == 3

(***************************************************************************)
(* Characters.                                                             *)
(***************************************************************************)
AsciiDigits == {"0", "1", "2", "3", "4", "5", "6", "7", "8", "9"}

AsciiLetters ==
    {"a", "b", "c", "d", "e", "f", "g", "h", "i", "j", "k", "l", "m",
     "n", "o", "p", "q", "r", "s", "t", "u", "v", "w", "x", "y", "z",
     "A", "B", "C", "D", "E", "F", "G", "H", "I", "J", "K", "L", "M",
     "N", "O", "P", "Q", "R", "S", "T", "U", "V", "W", "X", "Y", "Z"}

\* characters whose UTF-8 encoding takes two bytes
TwoByteChars == {"é"}

is_ascii_digit(c) == c \in AsciiDigits

is_ascii_alphanumeric(c) == c \in AsciiDigits \cup AsciiLetters

\* str::len counts bytes, not characters
Utf8Len(c) == IF c \in TwoByteChars THEN 2 ELSE 1

\* str::len: one byte per character, one more for each two-byte character
StrLen(s) == Len(s) + Cardinality({i \in DOMAIN s : Utf8Len(s[i]) = 2})

DigitValue(c) ==
    CASE c = "0" -> 0 [] c = "1" -> 1 [] c = "2" -> 2 [] c = "3" -> 3
      [] c = "4" -> 4 [] c = "5" -> 5 [] c = "6" -> 6 [] c = "7" -> 7
      [] c = "8" -> 8 [] c = "9" -> 9

DigitChar(d) ==
    CASE d = 0 -> "0" [] d = 1 -> "1" [] d = 2 -> "2" [] d = 3 -> "3"
      [] d = 4 -> "4" [] d = 5 -> "5" [] d = 6 -> "6" [] d = 7 -> "7"
      [] d = 8 -> "8" [] d = 9 -> "9"

(***************************************************************************)
(* String primitives of the standard library, as the code uses them.       *)
(***************************************************************************)
\* positions of the character c in s
Positions(s, c) == {i \in DOMAIN s : s[i] = c}

Min(S) == CHOOSE x \in S : \A y \in S : x <= y
Max(S) == CHOOSE x \in S : \A y \in S : x >= y

SplitAt(s, i) ==
    [found |-> TRUE,
     before |-> SubSeq(s, 1, i - 1),
     after |-> SubSeq(s, i + 1, Len(s))]

NotFound == [found |-> FALSE, before |-> <<>>, after |-> <<>>]

\* variant: a separator in the first position is not seen
split_once_SkipsFirst(s, c) ==
    IF Positions(s, c) \ {1} = {} THEN NotFound
    ELSE SplitAt(s, Min(Positions(s, c) \ {1}))

\* str::split_once: split at the first occurrence of c
split_once(s, c) ==
    IF Positions(s, c) = {} THEN NotFound ELSE SplitAt(s, Min(Positions(s, c)))

\* str::rsplit_once: split at the last occurrence of c
rsplit_once(s, c) ==
    IF Positions(s, c) = {} THEN NotFound ELSE SplitAt(s, Max(Positions(s, c)))

\* str::split(c).collect(): the parts between occurrences of c, in order
RECURSIVE split(_, _)
split(s, c) ==
    IF Positions(s, c) = {} THEN <<s>>
    ELSE LET i == Min(Positions(s, c))
         IN  <<SubSeq(s, 1, i - 1)>> \o split(SubSeq(s, i + 1, Len(s)), c)

\* u16::from_str: optional leading '+', then one or more decimal digits,
\* accumulated with overflow checks against u16::MAX
RECURSIVE ParseDigitsU16(_, _)
ParseDigitsU16(s, acc) ==
    IF s = <<>> THEN [ok |-> TRUE, val |-> acc]
    ELSE IF ~is_ascii_digit(Head(s)) THEN [ok |-> FALSE, val |-> 0]
    ELSE IF acc * 10 + DigitValue(Head(s)) > U16Max THEN [ok |-> FALSE, val |-> 0]
    ELSE ParseDigitsU16(Tail(s), acc * 10 + DigitValue(Head(s)))

\* variant: the overflow check is off by one and rejects u16::MAX itself
ParseU16_OffByOne(s) ==
    LET r == IF s = <<>> THEN [ok |-> FALSE, val |-> 0]
             ELSE IF Len(s) = 1 /\ Head(s) \in {"+", "-"} THEN [ok |-> FALSE, val |-> 0]
             ELSE IF Head(s) = "+" THEN ParseDigitsU16(Tail(s), 0)
             ELSE ParseDigitsU16(s, 0)
    IN  IF r.ok /\ r.val >= U16Max THEN [ok |-> FALSE, val |-> 0] ELSE r

ParseU16(s) ==
    IF s = <<>> THEN [ok |-> FALSE, val |-> 0]
    ELSE IF Len(s) = 1 /\ Head(s) \in {"+", "-"} THEN [ok |-> FALSE, val |-> 0]
    ELSE IF Head(s) = "+" THEN ParseDigitsU16(Tail(s), 0)
    ELSE ParseDigitsU16(s, 0)

\* Display of an unsigned integer: decimal digits, no leading zeros
RECURSIVE Decimal(_)
Decimal(n) ==
    IF n < 10 THEN <<DigitChar(n)>>
    ELSE Decimal(n \div 10) \o <<DigitChar(n % 10)>>

\* one group of Ipv4Addr::from_str: 1 to 3 decimal digits, no zero prefix,
\* value within u8
RECURSIVE DigitsValue(_, _)
DigitsValue(s, acc) ==
    IF s = <<>> THEN acc ELSE DigitsValue(Tail(s), acc * 10 + DigitValue(Head(s)))

Ipv4Octet(s) ==
    /\ s # <<>>
    /\ Len(s) <= Ipv4MaxDigits
    /\ \A i \in DOMAIN s : is_ascii_digit(s[i])
    /\ ~(Head(s) = "0" /\ Len(s) > 1)
    /\ DigitsValue(s, 0) <= U8Max

\* Ipv4Addr::from_str(value).is_ok(): exactly four groups separated by '.'
Ipv4Addr_parse_ok(s) ==
    /\ StrLen(s) <= Ipv4MaxBytes
    /\ LET groups == split(s, ".")
       IN  /\ Len(groups) = 4
           /\ \A i \in DOMAIN groups : Ipv4Octet(groups[i])

(***************************************************************************)
(* src/src/validate.rs                                                     *)
(***************************************************************************)
is_valid_label_char(c) == is_ascii_alphanumeric(c) \/ c = "-"

is_valid_host_char(c) == is_valid_label_char(c) \/ c = "."

is_valid_label(label) ==
    IF label = <<>> \/ StrLen(label) > MaxLabelBytes THEN FALSE
    ELSE IF Head(label) = "-" \/ label[Len(label)] = "-" THEN FALSE
    ELSE IF \E i \in DOMAIN label : ~is_valid_label_char(label[i]) THEN FALSE
    ELSE IF \A i \in DOMAIN label : is_ascii_digit(label[i]) THEN FALSE
    ELSE TRUE

\* variant: the address branch is taken for four parts instead of three
is_valid_host_FourParts(value) ==
    IF value = <<>> \/ StrLen(value) > MaxHostBytes THEN FALSE
    ELSE IF ~is_ascii_alphanumeric(Head(value)) THEN FALSE
    ELSE IF ~is_ascii_alphanumeric(value[Len(value)]) THEN FALSE
    ELSE IF \E i \in DOMAIN value : ~is_valid_host_char(value[i]) THEN FALSE
    ELSE LET parts == split(value, ".")
         IN  IF /\ Len(parts) = 4
                /\ \A i \in DOMAIN value : is_ascii_digit(value[i]) \/ value[i] = "."
             THEN Ipv4Addr_parse_ok(value)
             ELSE \A i \in DOMAIN parts : is_valid_label(parts[i])

is_valid_host(value) ==
    IF value = <<>> \/ StrLen(value) > MaxHostBytes THEN FALSE
    ELSE IF ~is_ascii_alphanumeric(Head(value)) THEN FALSE
    ELSE IF ~is_ascii_alphanumeric(value[Len(value)]) THEN FALSE
    ELSE IF \E i \in DOMAIN value : ~is_valid_host_char(value[i]) THEN FALSE
    ELSE LET parts == split(value, ".")
         IN  IF /\ Len(parts) = 3
                /\ \A i \in DOMAIN value : is_ascii_digit(value[i]) \/ value[i] = "."
             THEN Ipv4Addr_parse_ok(value)
             ELSE \A i \in DOMAIN parts : is_valid_label(parts[i])

(***************************************************************************)
(* src/src/lib.rs                                                          *)
(***************************************************************************)
\* Result<HostPort, HostPortParseError>; host/port are meaningful for Ok,
\* text is the String carried by InvalidHost and InvalidPort
Ok(h, p) == [kind |-> "Ok", host |-> h, port |-> p, text |-> <<>>]
InvalidFormat == [kind |-> "InvalidFormat", host |-> <<>>, port |-> 0, text |-> <<>>]
InvalidHost(t) == [kind |-> "InvalidHost", host |-> <<>>, port |-> 0, text |-> t]
InvalidPort(t) == [kind |-> "InvalidPort", host |-> <<>>, port |-> 0, text |-> t]
NoResult == [kind |-> "None", host |-> <<>>, port |-> 0, text |-> <<>>]

\* variant: the host is stored without being validated
HostPort_new_Unchecked(host, port) == Ok(host, port)

\* HostPort::new
HostPort_new(host, port) ==
    IF ~is_valid_host(host) THEN InvalidHost(host) ELSE Ok(host, port)

\* variant: InvalidPort carries the whole input instead of the port candidate
try_from_WholeText(value) ==
    LET sp == split_once(value, ":")
    IN  IF ~sp.found THEN InvalidFormat
        ELSE LET parsed == ParseU16(sp.after)
             IN  IF ~parsed.ok THEN InvalidPort(value)
                 ELSE HostPort_new(sp.before, parsed.val)

\* impl TryFrom<&str> for HostPort (FromStr::from_str delegates to it)
try_from(value) ==
    LET sp == split_once(value, ":")
    IN  IF ~sp.found THEN InvalidFormat
        ELSE LET parsed == ParseU16(sp.after)
             IN  IF ~parsed.ok THEN InvalidPort(sp.after)
                 ELSE HostPort_new(sp.before, parsed.val)

\* variant: the two fields are written in the wrong order
fmt_PortFirst(host, port) == Decimal(port) \o <<":">> \o host

\* impl Display for HostPort: "{host}:{port}"
fmt(host, port) == host \o <<":">> \o Decimal(port)

\* Display of Ipv4Addr: four decimal octets joined by '.'
Ipv4_to_string(o) ==
    Decimal(o[1]) \o <<".">> \o Decimal(o[2]) \o <<".">> \o Decimal(o[3])
        \o <<".">> \o Decimal(o[4])

\* impl From<&SocketAddrV4> for HostPort: no validation
from_socket_addr(octets, port) == Ok(Ipv4_to_string(octets), port)

\* #[derive(Default)]: empty host, port 0
HostPort_default == Ok(<<>>, 0)

\* variant: the ports are not compared
eq_HostOnly(host, port, other) ==
    LET sp == rsplit_once(other, ":")
    IN  IF sp.found
        THEN LET parsed == ParseU16(sp.after)
             IN  IF parsed.ok THEN host = sp.before ELSE FALSE
        ELSE FALSE

\* impl PartialEq<&str> for HostPort
eq(host, port, other) ==
    LET sp == rsplit_once(other, ":")
    IN  IF sp.found
        THEN LET parsed == ParseU16(sp.after)
             IN  IF parsed.ok THEN host = sp.before /\ port = parsed.val
                 ELSE FALSE
        ELSE FALSE


(***************************************************************************)
(* Inputs.                                                                 *)
(***************************************************************************)
SeqsUpTo(S, n) == UNION {[1..k -> S] : k \in 0..n}

Repeat(c, n) == [i \in 1..n |-> c]

Dot == <<".">>
Colon == <<":">>

HostChars == {"a", "1", "-", "."}
TextChars == {"a", "1", ".", ":", "+", "$"}

\* every host candidate of at most MaxHostLen characters over HostChars
ShortHosts == SeqsUpTo(HostChars, MaxHostLen)

\* every raw text of at most MaxTextLen characters over TextChars
ShortTexts == SeqsUpTo(TextChars, MaxTextLen)

\* hosts of the documentation and the tests, and their neighbours
NamedHosts ==
    {<<"q", "u", "a", "k", "e", ".", "s", "e">>,
     <<"q", "u", "a", "k", "e", "-", "w", "o", "r", "l", "d", ".", "s", "e">>,
     <<"l", "o", "c", "a", "l", "h", "o", "s", "t">>,
     <<"q", "u", "a", "k", "e", "1", ".", "s", "e">>,
     <<"1", "q", "u", "a", "k", "e", ".", "s", "e">>,
     <<"f", "o", "o", ".">>,
     <<"a", ".", "0">>,
     <<"1", "0", "0", "0", ".", "0", ".", "0", ".", "0">>,
     <<"1", "0", ".", "1", "0", ".", "1", "0">>,
     <<"1", ".", "2", ".", "3">>,
     <<"2", "5", "6", ".", "1", ".", "1">>,
     <<"_">>,
     <<"0", "0", "0">>,
     <<"-", "-", "-">>,
     <<"a", "a", "a", "-">>,
     <<"-", "a", "a", "a">>,
     <<".", "a", "a", "a">>,
     <<"f", "%", "%">>,
     <<"0">>,
     <<"1", "0">>,
     <<"q", "u", "a", "k", "e", "|", "s", "e">>,
     <<"é">>,
     <<"a", "é">>,
     <<"0", "1", ".", "2", ".", "3", ".", "4">>,
     <<"1", ".", "2", ".", "3", ".", "4", ".", "5">>,
     <<"a", ".", "b", ".", "c">>,
     <<"A", "-", "1", ".", "b", "2">>}

\* labels and hosts at the length ceilings
LongLabel == Repeat("a", MaxLabelBytes)
LongHosts ==
    {LongLabel,
     LongLabel \o <<"a">>,
     Repeat("1", MaxLabelBytes) \o <<"a">>,
     Repeat("a", MaxHostBytes),
     Repeat("a", MaxHostBytes + 1),
     LongLabel \o Dot \o LongLabel \o Dot \o LongLabel \o Dot \o LongLabel,
     Repeat("a", MaxLabelBytes - 1) \o Dot \o LongLabel \o Dot \o LongLabel
        \o Dot \o LongLabel \o Dot \o <<"a">>,
     LongLabel \o <<"a">> \o Dot \o <<"a">>}

OctetPool == {0, 10, 255}
Quads == [1..4 -> OctetPool]

\* standard dotted-quad IPv4 literals
DottedQuads == {Ipv4_to_string(o) : o \in Quads}

HostInputs == ShortHosts \cup NamedHosts \cup LongHosts \cup DottedQuads

PortPool == {0, 1, 80, 28501, 65535}

\* port candidates that are not the canonical rendering of a u16
OddPortTexts ==
    {<<>>,
     <<"+">>,
     <<"-">>,
     <<"+", "8", "0">>,
     <<"-", "1">>,
     <<" ", "8", "0">>,
     <<"8", "0", " ">>,
     <<"+", "0">>,
     <<"0", "0", "0", "8", "0">>,
     <<"6", "5", "5", "3", "6">>,
     <<"9", "9", "9", "9", "9">>,
     <<"+", "6", "5", "5", "3", "5">>,
     <<"+", "6", "5", "5", "3", "6">>,
     <<"a">>,
     <<"a", "b", "c">>,
     <<"8", "a">>,
     <<"1", ":", "2">>,
     <<"0", "x", "5", "0">>}

PortTexts == {Decimal(p) : p \in PortPool} \cup OddPortTexts

\* raw texts handed to the parser
ParseInputs ==
    ShortTexts
    \cup {h \o Colon \o x : h \in HostInputs, x \in PortTexts}
    \cup {h \o <<"$">> \o Colon \o Decimal(p) : h \in HostInputs, p \in PortPool}
    \cup HostInputs

OtherHosts == {<<"a">>, <<"a", ".", "b">>, <<"1", "0", ".", "0", ".", "0", ".", "1">>}

\* raw texts a value with the given host and port is compared against
CompareInputs(host, port) ==
    {host \o Colon \o x : x \in PortTexts}
    \cup {h \o Colon \o Decimal(port) : h \in OtherHosts}
    \cup {fmt(host, p) : p \in PortPool}
    \cup {host, Decimal(port), host \o Decimal(port), <<>>, Colon}
    \cup {host \o Colon \o Decimal(port) \o Colon \o Decimal(port),
          Colon \o fmt(host, port)}

(***************************************************************************)
(* State: one use of the library.  A caller performs one of the entry      *)
(* operations, and may go on to render, re-parse or compare the value it   *)
(* obtained.                                                               *)
(***************************************************************************)
VARIABLES
    op,       \* the operation performed last
    arg,      \* its text argument
    port,     \* its port argument
    res,      \* the Result of the last construction or parse
    origin,   \* the construction path that produced res
    prev,     \* the value that was rendered, and its origin
    text,     \* the last rendered text
    verdict   \* the last boolean returned

vars == <<op, arg, port, res, origin, prev, text, verdict>>

NoPrev == [v |-> NoResult, origin |-> "none"]

Init ==
    /\ op = "init"
    /\ arg = <<>>
    /\ port = 0
    /\ res = NoResult
    /\ origin = "none"
    /\ prev = NoPrev
    /\ text = <<>>
    /\ verdict = FALSE

\* validate::is_valid_host(value)
IsValidHost(value) ==
    /\ op = "init"
    /\ op' = "is_valid_host"
    /\ arg' = value
    /\ verdict' = is_valid_host(value)
    /\ UNCHANGED <<port, res, origin, prev, text>>

\* HostPort::new(host, p)
New(host, p) ==
    /\ op = "init"
    /\ op' = "new"
    /\ arg' = host
    /\ port' = p
    /\ res' = HostPort_new(host, p)
    /\ origin' = "new"
    /\ UNCHANGED <<prev, text, verdict>>

\* HostPort::try_from(value), value.parse::<HostPort>()
TryFrom(value) ==
    /\ op = "init"
    /\ op' = "try_from"
    /\ arg' = value
    /\ res' = try_from(value)
    /\ origin' = "try_from"
    /\ UNCHANGED <<port, prev, text, verdict>>

\* HostPort::from(&SocketAddrV4::new(Ipv4Addr::new(o1, o2, o3, o4), p))
FromSocketAddr(octets, p) ==
    /\ op = "init"
    /\ op' = "from_socket_addr"
    /\ arg' = Ipv4_to_string(octets)
    /\ port' = p
    /\ res' = from_socket_addr(octets, p)
    /\ origin' = "from_socket_addr"
    /\ UNCHANGED <<prev, text, verdict>>

\* HostPort::default()
Default ==
    /\ op = "init"
    /\ op' = "default"
    /\ res' = HostPort_default
    /\ origin' = "default"
    /\ UNCHANGED <<arg, port, prev, text, verdict>>

Constructed == op \in {"new", "try_from", "from_socket_addr", "default", "parse_text"}

\* value.to_string()
ToString ==
    /\ Constructed
    /\ res.kind = "Ok"
    /\ op' = "to_string"
    /\ text' = fmt(res.host, res.port)
    /\ UNCHANGED <<arg, port, res, origin, prev, verdict>>

\* HostPort::try_from(rendered.as_str()) on the text rendered last
ParseText ==
    /\ op = "to_string"
    /\ op' = "parse_text"
    /\ prev' = [v |-> res, origin |-> origin]
    /\ arg' = text
    /\ res' = try_from(text)
    /\ origin' = "try_from"
    /\ UNCHANGED <<port, text, verdict>>

\* value == other
EqStr(other) ==
    /\ Constructed
    /\ res.kind = "Ok"
    /\ op' = "eq_str"
    /\ arg' = other
    /\ verdict' = eq(res.host, res.port, other)
    /\ UNCHANGED <<port, res, origin, prev, text>>

Next ==
    \/ op = "init" /\ \E value \in HostInputs : IsValidHost(value)
    \/ op = "init" /\ \E host \in HostInputs, p \in PortPool : New(host, p)
    \/ op = "init" /\ \E value \in ParseInputs : TryFrom(value)
    \/ op = "init" /\ \E octets \in Quads, p \in PortPool : FromSocketAddr(octets, p)
    \/ Default
    \/ ToString
    \/ ParseText
    \/ res.kind = "Ok" /\ \E other \in CompareInputs(res.host, res.port) : EqStr(other)

Spec == Init /\ [][Next]_vars

(***************************************************************************)
(* Properties.                                                             *)
(***************************************************************************)
Range(s) == {s[i] : i \in DOMAIN s}

HasColon(s) == ":" \in Range(s)

\* the text before and after the first ':' of the text parsed last
ArgHost == SubSeq(arg, 1, Min(Positions(arg, ":")) - 1)
ArgPort == SubSeq(arg, Min(Positions(arg, ":")) + 1, Len(arg))

\* a decimal numeral: an optional sign followed by one or more digits
IsNumeral(x) ==
    LET body == IF x # <<>> /\ Head(x) \in {"+", "-"} THEN Tail(x) ELSE x
    IN  body # <<>> /\ \A i \in DOMAIN body : body[i] \in AsciiDigits

\* C1: every HostPort value, whichever construction path produced it, has a
\* host that is_valid_host accepts.
C1_EveryValueHasValidHost ==
    res.kind = "Ok" => is_valid_host(res.host)

\* C2: is_valid_host accepts every standard dotted-quad IPv4 literal, and
\* parsing "<address>:<port>" succeeds with the address text as host.
C2_DottedQuadAccepted ==
    /\ (op = "is_valid_host" /\ arg \in DottedQuads) => verdict
    /\ (op = "try_from" /\ HasColon(arg) /\ ArgHost \in DottedQuads
            /\ ArgPort \in {Decimal(p) : p \in PortPool})
        => (res.kind = "Ok" /\ res.host = ArgHost)

\* C3: for every accepted host h and every port p, HostPort::new(h, p)
\* succeeds with host h and port p, and parsing h ++ ":" ++ decimal(p)
\* succeeds with the same value.
C3_ParseAgreesWithNew ==
    (op = "new" /\ is_valid_host(arg)) =>
        /\ res.kind = "Ok"
        /\ res.host = arg
        /\ res.port = port
        /\ try_from(arg \o Colon \o Decimal(port)) = res

C3_Witness ==
    /\ op = "new"
    /\ is_valid_host(arg)
    /\ Len(split(arg, ".")) = 2
    /\ port = U16Max
    /\ res.kind = "Ok"

\* C4: parsing the rendered text of a value produced by HostPort::new or by
\* parsing succeeds and yields that same value.
C4_RoundTrip ==
    (op = "parse_text" /\ prev.origin \in {"new", "try_from"}) =>
        (res.kind = "Ok" /\ res = prev.v)

C4_Witness ==
    /\ op = "parse_text"
    /\ prev.origin = "new"
    /\ prev.v.port = 28501
    /\ text = prev.v.host \o Colon \o <<"2", "8", "5", "0", "1">>
    /\ res = prev.v

\* C5: for an accepted host, a port candidate with a leading '+', a leading
\* '-' or surrounding whitespace is rejected with InvalidPort carrying that
\* candidate.
C5_SignedPortRejected ==
    (/\ op = "try_from"
     /\ HasColon(arg)
     /\ is_valid_host(ArgHost)
     /\ ArgPort # <<>>
     /\ \/ Head(ArgPort) \in {"+", "-", " "}
        \/ ArgPort[Len(ArgPort)] = " ")
    => res = InvalidPort(ArgPort)

C7_InvalidPortCarriesSuffix ==
    (/\ op = "try_from"
     /\ HasColon(arg)
     /\ is_valid_host(ArgHost)
     /\ ~IsNumeral(ArgPort))
    => res = InvalidPort(ArgPort)

C7_Witness ==
    /\ op = "try_from"
    /\ HasColon(arg)
    /\ is_valid_host(ArgHost)
    /\ ArgPort = <<"1", ":", "2">>
    /\ res.kind = "InvalidPort"

\* C8: when the port candidate is well-formed and the text before the first
\* ':' fails is_valid_host, parsing fails with InvalidHost carrying exactly
\* that text; in particular h ++ "$:1" fails with InvalidHost(h ++ "$") for
\* every accepted host h.
C8_InvalidHostCarriesHost ==
    /\ (op = "try_from" /\ HasColon(arg) /\ ParseU16(ArgPort).ok
            /\ ~is_valid_host(ArgHost))
        => res = InvalidHost(ArgHost)
    /\ (op = "try_from" /\ HasColon(arg) /\ ArgPort = <<"1">>
            /\ Len(ArgHost) > 1 /\ ArgHost[Len(ArgHost)] = "$"
            /\ is_valid_host(SubSeq(ArgHost, 1, Len(ArgHost) - 1)))
        => res = InvalidHost(ArgHost)

C8_Witness ==
    /\ op = "try_from"
    /\ HasColon(arg)
    /\ ArgPort = <<"1">>
    /\ Len(ArgHost) > 1
    /\ ArgHost[Len(ArgHost)] = "$"
    /\ is_valid_host(SubSeq(ArgHost, 1, Len(ArgHost) - 1))
    /\ res.kind = "InvalidHost"

\* C9: parsing fails with InvalidFormat exactly when the input has no ':';
\* an input with a ':' yields Ok, InvalidPort or InvalidHost.
C9_InvalidFormatIffNoColon ==
    op = "try_from" =>
        /\ (res.kind = "InvalidFormat") <=> ~HasColon(arg)
        /\ HasColon(arg) => res.kind \in {"Ok", "InvalidPort", "InvalidHost"}

C9_Witness ==
    /\ op = "try_from"
    /\ arg # <<>>
    /\ Head(arg) = ":"
    /\ res.kind = "InvalidHost"

\* the label rule as the specification words it
LabelRule(l) ==
    /\ Len(l) >= 1
    /\ Len(l) <= 63
    /\ Range(l) \subseteq AsciiDigits \cup AsciiLetters \cup {"-"}
    /\ l[1] # "-"
    /\ l[Len(l)] # "-"
    /\ ~(Range(l) \subseteq AsciiDigits)

====
